---------------------------- MODULE Spec2Model ----------------------------
(***************************************************************************)
(* Model of the real-time audio session pipeline of the Malayalam voice    *)
(* bot (src/app.py, src/utils.py, src/gemini_client.py,                    *)
(* src/sarvam_client.py).                                                  *)
(*                                                                         *)
(* One websocket handler thread per connection (media_handler) handles the *)
(* inbound events of its connection one after the other; every extracted   *)
(* audio chunk starts a pipeline of Python threads (process_stt, then      *)
(* process_gemini_response, which calls send_tts_response).  The threads   *)
(* of one connection share the registry entry of the connection, its       *)
(* conversation_context list and its websocket, without any lock.          *)
(*                                                                         *)
(* Representation.                                                         *)
(*  - Inbound audio bytes are symbolic: the i-th byte a connection ever    *)
(*    received is "input byte i".  A byte string is a sequence of runs     *)
(*    [z, lo, n]: n zero bytes (z = TRUE, padding) or the n input bytes    *)
(*    lo .. lo+n-1 (z = FALSE), kept in normal form (no empty run, no two  *)
(*    adjacent runs that could be one).                                    *)
(*  - Synthesised (outbound) audio is modelled by its length in bytes.     *)
(*  - Texts are sequences of characters; " " is whitespace.  A Python      *)
(*    Optional[str] is a record [some, v].                                 *)
(***************************************************************************)
EXTENDS Integers, Sequences, FiniteSets, TLC

VARIABLES
    pool,                \* websocket objects that have not connected yet
    handler,             \* per websocket: "idle", "open" (receive loop runs), "closed"
    wsOpen,              \* per websocket: the peer end is still connected
    active_connections,  \* app.py:26, connection_id -> entry, NoEntry when absent
    lists,               \* the conversation_context list object created for each connection
    threads,             \* every Thread ever started, in start order
    sent,                \* per websocket: the media messages sent on it, in order
    inbound,             \* per websocket: number of audio bytes decoded and appended so far
    env,                 \* what the environment may still do: events left, thread cap, payload sizes,
                         \* the websockets that will connect, the backends' outcomes
    alignIn,             \* frame aligner harness: the input
    alignOut,            \* frame aligner harness: the output, once computed
    playIn,              \* playback harness: bytes of 16-bit PCM in the synthesis answer
    playOut              \* playback harness: the audio's length after each normalisation

sysVars == <<pool, handler, wsOpen, active_connections, lists, threads, sent,
             inbound, env>>
fnVars == <<alignIn, alignOut, playIn, playOut>>
vars == <<pool, handler, wsOpen, active_connections, lists, threads, sent,
          inbound, env, alignIn, alignOut, playIn, playOut>>

-----------------------------------------------------------------------------
(* Bounds of the model *)

\* events (connected, start, media, stop) delivered to one connection, full system
MaxEvents == 2
\* media events delivered to one connection, aggregator-only specification
MaxIngest == 5
\* pipeline runs admitted, context-store specification
MaxRuns == 6
\* pipeline threads that may be unfinished at the same time
MaxInFlight == 2
\* longest input of the frame aligner harness
MaxAlignLen == 700
\* messages delivered to one connection, receive-loop specification
MaxMessages == 4
\* replies synthesised and sent, sender specification
MaxReplies == 2
\* most bytes of PCM in a synthesis answer, playback harness
MaxPcmLen == 1300

(* Program constants *)

\* utils.py:23 self.frame_size, and the literal 320 of app.py:193,273
frame_size == 320
\* app.py:165 minimum chunk, and app.py:268 chunk_size of the outbound pieces
min_chunk_size == 3200
\* app.py:242 exchanges kept in conversation_context
max_context == 5
\* gemini_client.py:68 exchanges put into a request
history_window == 3

\* the websocket objects; connection 2 comes after connection 1 (SpecReuse)
Sessions == {1, 2}
\* the values id(ws) takes: an id is unique among live objects only (app.py:84)
Keys == {1, 2}
NoEntry == [present |-> FALSE]
Unset == "unset"

-----------------------------------------------------------------------------
(* Byte strings *)

Zeros(n) == IF n = 0 THEN <<>> ELSE <<[z |-> TRUE, lo |-> 0, n |-> n]>>
InputBytes(lo, n) == IF n = 0 THEN <<>> ELSE <<[z |-> FALSE, lo |-> lo, n |-> n]>>

RECURSIVE BLen(_)
BLen(b) == IF b = <<>> THEN 0 ELSE Head(b).n + BLen(Tail(b))

Joins(r1, r2) ==
    \/ r1.z /\ r2.z
    \/ ~r1.z /\ ~r2.z /\ r1.lo + r1.n = r2.lo

\* a + b of Python bytes
BCat(a, b) ==
    IF a = <<>> THEN b
    ELSE IF b = <<>> THEN a
    ELSE LET l == a[Len(a)]
             f == Head(b)
         IN IF Joins(l, f)
            THEN SubSeq(a, 1, Len(a) - 1)
                 \o <<[z |-> l.z, lo |-> l.lo, n |-> l.n + f.n]>>
                 \o Tail(b)
            ELSE a \o b

\* b[:k] of Python bytes
RECURSIVE BTake(_, _)
BTake(b, k) ==
    IF k <= 0 \/ b = <<>> THEN <<>>
    ELSE IF Head(b).n <= k
         THEN <<Head(b)>> \o BTake(Tail(b), k - Head(b).n)
         ELSE <<[z |-> Head(b).z, lo |-> Head(b).lo, n |-> k]>>

\* b[k:] of Python bytes
RECURSIVE BDrop(_, _)
BDrop(b, k) ==
    IF k <= 0 \/ b = <<>> THEN b
    ELSE IF Head(b).n <= k
         THEN BDrop(Tail(b), k - Head(b).n)
         ELSE <<[z |-> Head(b).z,
                 lo |-> IF Head(b).z THEN 0 ELSE Head(b).lo + k,
                 n |-> Head(b).n - k]>> \o Tail(b)

\* every byte of b is a padding zero
AllZero(b) == \A i \in 1..Len(b) : b[i].z

-----------------------------------------------------------------------------
(* utils.py: AudioUtils.process_audio_for_stt *)

\* utils.py:47 padding_needed
padding_needed(n) == frame_size - (n % frame_size)

\* faulty variant: pads without testing the alignment
always_pads(n) == TRUE

\* utils.py:45 the alignment test
needs_padding(n) == n % frame_size # 0

process_audio_for_stt(audio_data) ==
    IF audio_data = <<>> THEN <<>>
    ELSE IF needs_padding(BLen(audio_data))
         THEN BCat(audio_data, Zeros(padding_needed(BLen(audio_data))))
         ELSE audio_data

-----------------------------------------------------------------------------
(* Texts *)

None == [some |-> FALSE, v |-> <<>>]
Str(t) == [some |-> TRUE, v |-> t]
\* Python truth value of an Optional[str]
Truthy(x) == x.some /\ x.v # <<>>

RECURSIVE LStrip(_)
LStrip(t) == IF t # <<>> /\ Head(t) = " " THEN LStrip(Tail(t)) ELSE t
RECURSIVE RStrip(_)
RStrip(t) ==
    IF t # <<>> /\ t[Len(t)] = " " THEN RStrip(SubSeq(t, 1, Len(t) - 1)) ELSE t
\* str.strip()
Strip(t) == RStrip(LStrip(t))

\* app.py:136
greeting_text == <<"n", "a", "m", "a", "s", "k", "a", "r", "a", "m">>

-----------------------------------------------------------------------------
(* Threads *)

\* A Thread of app.py.  process_stt and the process_gemini_response thread it
\* starts as its last statement are one record, whose pc moves on.
\* kind, sess, extracted and the last seven fields record history (which calls
\* the thread made, whether the transcription gave nothing, whether the reply
\* generation failed, the list it appended to, 0 for none, whether the synthesis
\* gave no audio); the rest are the arguments and locals of the thread's
\* functions.
NewThread(kind, s, k, pc, raw, audio, final, text) ==
    [kind |-> kind, sess |-> s, connection_id |-> k, pc |-> pc,
     extracted |-> raw, audio_data |-> audio, final |-> final,
     user_text |-> <<>>, context |-> 0, history |-> <<>>, text |-> text,
     ws |-> 0, audio_len |-> 0, i |-> 0,
     stt_called |-> FALSE, no_transcript |-> FALSE, gemini_called |-> FALSE,
     failed |-> FALSE, appended |-> 0, tts_called |-> FALSE, no_audio |-> FALSE]

\* the thread's function returns: its locals are gone, its history stays
Finish(th) ==
    [th EXCEPT !.pc = "done", !.user_text = <<>>, !.context = 0, !.history = <<>>,
               !.text = <<>>, !.ws = 0, !.audio_len = 0, !.i = 0]

Unfinished(ts) == {t \in 1..Len(ts) : ts[t].pc # "done"}

\* the environment delivers an event only while the thread cap is respected
Admit(ts) == Cardinality(Unfinished(ts)) <= env.inflight

-----------------------------------------------------------------------------
(* app.py: media_handler and the event handlers *)

\* the ids of the websocket objects a thread still refers to (local ws of
\* send_tts_response, found under the thread's connection_id)
Referenced(ts) == {ts[t].connection_id : t \in {u \in 1..Len(ts) : ts[u].ws # 0}}

\* app.py:84-89 the handler registers the connection.  id(ws) is any key that
\* no live websocket object has: an earlier websocket is dead once its handler
\* has returned and no thread refers to it.
Connect(s) ==
    /\ s \in pool
    /\ \E k \in env.keys \ Referenced(threads) :
          /\ ~active_connections[k].present
          /\ active_connections' =
                [active_connections EXCEPT ![k] =
                    [present |-> TRUE, ws |-> s, audio_buffer |-> <<>>,
                     conversation_context |-> s, stream_active |-> Unset]]
    /\ pool' = pool \ {s}
    /\ handler' = [handler EXCEPT ![s] = "open"]
    /\ lists' = [lists EXCEPT ![s] = <<>>]
    /\ UNCHANGED <<wsOpen, threads, sent, inbound, env, fnVars>>

\* the connection_id local of the handler of websocket s (app.py:84)
IdOf(s) == CHOOSE k \in Keys : active_connections[k].present /\ active_connections[k].ws = s

\* faulty variant: the handler joins the threads it started
joins_started(ts) == Unfinished(ts)

\* app.py:139,204 Thread(...).start(): the threads the handler thread waits for
\* before it receives the next message, none (there is no join)
joined(ts) == {}

\* app.py:96 ws.receive() hands the handler the next message
Receiving(s) == handler[s] = "open" /\ env.events > 0 /\ joined(threads) = {}
Consumed == [env EXCEPT !.events = @ - 1]

\* faulty variant: the greeting is handed to process_gemini_response
greeting_via_reply == "gemini"

\* app.py:139 target=send_tts_response: where the greeting thread starts
greeting_target == "tts"

\* app.py:131-139
handle_connected(s) ==
    /\ Receiving(s)
    /\ threads' = Append(threads,
                     NewThread("greeting", s, IdOf(s), greeting_target, <<>>, <<>>,
                               FALSE, greeting_text))
    /\ Admit(threads')
    /\ env' = Consumed
    /\ UNCHANGED <<pool, handler, wsOpen, active_connections, lists, sent, inbound, fnVars>>

\* app.py:141-144
handle_start(s) ==
    /\ Receiving(s)
    /\ active_connections' = [active_connections EXCEPT ![IdOf(s)].stream_active = "true"]
    /\ env' = Consumed
    /\ UNCHANGED <<pool, handler, wsOpen, lists, threads, sent, inbound, fnVars>>

\* app.py:193
chunk_size(n) == (n \div frame_size) * frame_size

\* faulty variant: the buffer is reset instead of sliced
buffer_reset(audio_buffer, cs) == <<>>

\* faulty variant: the chunk is copied and the buffer left as it was
buffer_kept(audio_buffer, cs) == audio_buffer

\* app.py:198
rest_of_buffer(audio_buffer, cs) == BDrop(audio_buffer, cs)

\* app.py:180-207: the registry and the threads after process_audio_chunk
process_audio_chunk(reg, ts, k, final) ==
    IF ~reg[k].present THEN [reg |-> reg, ts |-> ts]
    ELSE LET audio_buffer == reg[k].audio_buffer IN
         IF audio_buffer = <<>> THEN [reg |-> reg, ts |-> ts]
         ELSE LET cs == chunk_size(BLen(audio_buffer)) IN
              IF cs = 0 THEN [reg |-> reg, ts |-> ts]
              ELSE LET audio_chunk == BTake(audio_buffer, cs)
                       processed_audio == process_audio_for_stt(audio_chunk)
                   IN [reg |-> [reg EXCEPT ![k].audio_buffer = rest_of_buffer(audio_buffer, cs)],
                       ts |-> Append(ts, NewThread("chunk", reg[k].ws, k, "stt",
                                                   audio_chunk, processed_audio,
                                                   final, <<>>))]

\* faulty variant: > instead of >=
more_than_minimum(n) == n > min_chunk_size

\* app.py:165
enough_audio(n) == n >= min_chunk_size

\* faulty variant: media is taken only while the stream is marked active
streaming_only(reg, k) == reg[k].present /\ reg[k].stream_active = "true"

\* app.py:148-149: the only condition on the connection that handle_media tests
accepts_media(reg, k) == reg[k].present

\* app.py:146-169.  The payload p is empty or missing ("empty"), not decodable
\* ("bad": b64decode raises, caught at line 168) or decodes to p.n new bytes.
handle_media(s, p) ==
    /\ Receiving(s)
    /\ LET k == IdOf(s)
           audio_data == InputBytes(inbound[s], p.n)
           appended == [active_connections EXCEPT
                           ![k].audio_buffer = BCat(@, audio_data)]
           after == IF enough_audio(BLen(appended[k].audio_buffer))
                    THEN process_audio_chunk(appended, threads, k, FALSE)
                    ELSE [reg |-> appended, ts |-> threads]
       IN IF accepts_media(active_connections, k) /\ p.kind = "b64"
          THEN /\ active_connections' = after.reg
               /\ threads' = after.ts
               /\ inbound' = [inbound EXCEPT ![s] = @ + p.n]
          ELSE UNCHANGED <<active_connections, threads, inbound>>
    /\ Admit(threads')
    /\ env' = Consumed
    /\ UNCHANGED <<pool, handler, wsOpen, lists, sent, fnVars>>

\* app.py:171-178
handle_stop(s) ==
    /\ Receiving(s)
    /\ LET k == IdOf(s)
           stopped == [active_connections EXCEPT ![k].stream_active = "false"]
           after == IF stopped[k].audio_buffer # <<>>
                    THEN process_audio_chunk(stopped, threads, k, TRUE)
                    ELSE [reg |-> stopped, ts |-> threads]
       IN /\ active_connections' = after.reg
          /\ threads' = after.ts
    /\ Admit(threads')
    /\ env' = Consumed
    /\ UNCHANGED <<pool, handler, wsOpen, lists, sent, inbound, fnVars>>

Payloads == [kind : {"b64"}, n : env.sizes] \cup {[kind |-> "empty", n |-> 0], [kind |-> "bad", n |-> 0]}

\* faulty variant: the handler returns without the clean-up
entry_kept(reg, k) == reg

\* the finally block of media_handler, app.py:125-129, on the registry
finally_block(reg, k) == [reg EXCEPT ![k] = NoEntry]

\* Messages that are no event: text that is not JSON ("not_json"), JSON that is
\* not an object, such as [] or 5 or null ("not_object"), an object without an
\* event field or with an unknown one ("no_event").
OtherMessages == {"not_json", "not_object", "no_event"}

\* app.py:96-129 on such a message.  json.loads raises JSONDecodeError, caught
\* at line 119; data.get of a list, a number, a string or None raises
\* AttributeError, which only the outer handler of line 123 catches: the loop
\* is left, the finally block runs and the server closes the websocket.
receive_other(s, m) ==
    /\ Receiving(s)
    /\ IF m = "not_object"
       THEN /\ handler' = [handler EXCEPT ![s] = "closed"]
            /\ wsOpen' = [wsOpen EXCEPT ![s] = FALSE]
            /\ active_connections' = finally_block(active_connections, IdOf(s))
       ELSE UNCHANGED <<handler, wsOpen, active_connections>>
    /\ env' = Consumed
    /\ UNCHANGED <<pool, lists, threads, sent, inbound, fnVars>>

\* app.py:98-99 and 123-129: the receive loop ends (a falsy message, an error
\* raised by receive) and the finally block removes the entry; the server then
\* closes the websocket.
Close(s) ==
    /\ handler[s] = "open"
    /\ handler' = [handler EXCEPT ![s] = "closed"]
    /\ wsOpen' = [wsOpen EXCEPT ![s] = FALSE]
    /\ active_connections' = finally_block(active_connections, IdOf(s))
    /\ UNCHANGED <<pool, lists, threads, sent, inbound, env, fnVars>>

\* the peer goes away; the handler has not noticed yet
Disconnect(s) ==
    /\ handler[s] = "open"
    /\ wsOpen[s]
    /\ wsOpen' = [wsOpen EXCEPT ![s] = FALSE]
    /\ UNCHANGED <<pool, handler, active_connections, lists, threads, sent, inbound,
                   env, fnVars>>

-----------------------------------------------------------------------------
(* sarvam_client.py: SarvamClient.speech_to_text *)

\* 500 stands for every status other than 200
Transcripts == {<<>>, <<" ">>, <<"h", "i">>, <<" ", "h", "i", " ">>}
STTResponses ==
    {[kind |-> "http", status |-> 200, transcript |-> t] : t \in Transcripts}
    \cup {[kind |-> "http", status |-> 500, transcript |-> <<>>],
          [kind |-> "exception", status |-> 0, transcript |-> <<>>]}

\* sarvam_client.py:175-185, resp is what requests.post gave or raised
speech_to_text(resp) ==
    IF resp.kind = "exception" THEN None
    ELSE IF resp.status = 200
         THEN LET transcript == Strip(resp.transcript)
              IN IF transcript # <<>> THEN Str(transcript) ELSE None
         ELSE None

\* the transcription failed or heard nothing: no 200, or only whitespace
NoTranscript(resp) ==
    \/ resp.kind # "http"
    \/ resp.status # 200
    \/ \A i \in 1..Len(resp.transcript) : resp.transcript[i] = " "

\* faulty variant: `or not` instead of `and`
transcript_or_blank(transcript) == Truthy(transcript) \/ Strip(transcript.v) = <<>>

\* app.py:215
has_transcript(transcript) == Truthy(transcript) /\ Strip(transcript.v) # <<>>

\* app.py:209-222 process_stt, from the return of the transcription call
STTReturn(t) ==
    /\ threads[t].pc = "stt"
    /\ \E resp \in env.stt :
          LET transcript == speech_to_text(resp)
              called == [threads[t] EXCEPT !.stt_called = TRUE,
                                           !.no_transcript = NoTranscript(resp)]
          IN threads' = [threads EXCEPT ![t] =
                 IF has_transcript(transcript)
                 THEN [called EXCEPT !.user_text = transcript.v, !.pc = "gemini"]
                 ELSE Finish(called)]
    /\ UNCHANGED <<pool, handler, wsOpen, active_connections, lists, sent, inbound,
                   env, fnVars>>

-----------------------------------------------------------------------------
(* gemini_client.py: GeminiClient.get_response *)

\* the last n elements, q[-n:]
LastN(q, n) == IF Len(q) <= n THEN q ELSE SubSeq(q, Len(q) - n + 1, Len(q))

\* faulty variant: the whole context goes into the request
whole_history(context) == context

\* gemini_client.py:66-76 the history put into the request
request_history(context) == LastN(context, history_window)

CandidateTexts == {<<"o", "k">>, <<" ", "o", "k">>, <<" ">>}
GeminiResponses ==
    {[kind |-> "http", status |-> 200, body |-> "text", text |-> c] : c \in CandidateTexts}
    \cup {[kind |-> "http", status |-> 200, body |-> b, text |-> <<>>] :
             b \in {"no_candidates", "no_content"}}
    \cup {[kind |-> "http", status |-> 500, body |-> "", text |-> <<>>]}
    \cup {[kind |-> k, status |-> 0, body |-> "", text |-> <<>>] :
             k \in {"timeout", "request_exception", "exception"}}

\* the fixed apology returned at the given line of gemini_client.py
Apology(line) == Str(<<line>>)

\* gemini_client.py:122-156, resp is what requests.post gave or raised
get_response(resp) ==
    IF resp.kind = "timeout" THEN Apology("sorry150")
    ELSE IF resp.kind = "request_exception" THEN Apology("sorry153")
    ELSE IF resp.kind = "exception" THEN Apology("sorry156")
    ELSE IF resp.status = 200
         THEN IF resp.body = "no_candidates" THEN Apology("sorry142")
              ELSE IF resp.body = "no_content" THEN Apology("sorry139")
              ELSE LET response_text == Strip(resp.text)
                   IN IF response_text # <<>> THEN Str(response_text)
                      ELSE Apology("sorry136")
         ELSE Apology("sorry146")

\* reply generation failed: every outcome but a 200 with a non-empty text
GeminiFailed(resp) ==
    ~(resp.kind = "http" /\ resp.status = 200 /\ resp.body = "text"
      /\ Strip(resp.text) # <<>>)

-----------------------------------------------------------------------------
(* app.py: process_gemini_response *)

\* app.py:227-231
GeminiStart(t) ==
    /\ threads[t].pc = "gemini"
    /\ LET k == threads[t].connection_id
       IN threads' = IF ~active_connections[k].present
                     THEN [threads EXCEPT ![t] = Finish(@)]
                     ELSE [threads EXCEPT
                              ![t].context = active_connections[k].conversation_context,
                              ![t].pc = "build"]
    /\ UNCHANGED <<pool, handler, wsOpen, active_connections, lists, sent, inbound,
                   env, fnVars>>

\* app.py:234 with gemini_client.py:52-112: the request is built from the list
BuildRequest(t) ==
    /\ threads[t].pc = "build"
    /\ threads' = [threads EXCEPT
                      ![t].history = request_history(lists[threads[t].context]),
                      ![t].gemini_called = TRUE,
                      ![t].pc = "generate"]
    /\ UNCHANGED <<pool, handler, wsOpen, active_connections, lists, sent, inbound,
                   env, fnVars>>

\* app.py:234-236 the call returns
GeminiReturn(t) ==
    /\ threads[t].pc = "generate"
    /\ \E resp \in env.gemini :
          LET response_text == get_response(resp)
              returned == [threads[t] EXCEPT !.failed = GeminiFailed(resp),
                                             !.history = <<>>]
          IN threads' = [threads EXCEPT ![t] =
                 IF Truthy(response_text)
                 THEN [returned EXCEPT !.text = response_text.v, !.pc = "append"]
                 ELSE Finish(returned)]
    /\ UNCHANGED <<pool, handler, wsOpen, active_connections, lists, sent, inbound,
                   env, fnVars>>

\* the number of exchanges ever appended to list l
Appends(l) == Cardinality({t \in 1..Len(threads) : threads[t].appended = l})

\* app.py:240.  run (the appending thread) and seq (the how-manieth append this
\* is) are history only.
ContextAppend(t) ==
    /\ threads[t].pc = "append"
    /\ lists' = [lists EXCEPT ![threads[t].context] =
                    Append(@, [user |-> threads[t].user_text,
                               assistant |-> threads[t].text, run |-> t,
                               seq |-> Appends(threads[t].context) + 1])]
    /\ threads' = [threads EXCEPT ![t].appended = threads[t].context, ![t].pc = "trim"]
    /\ UNCHANGED <<pool, handler, wsOpen, active_connections, sent, inbound, env, fnVars>>

\* app.py:242
too_long(n) == n > max_context

TrimCheck(t) ==
    /\ threads[t].pc = "trim"
    /\ threads' = [threads EXCEPT
                      ![t].pc = IF too_long(Len(lists[threads[t].context]))
                                THEN "pop" ELSE "tts"]
    /\ UNCHANGED <<pool, handler, wsOpen, active_connections, lists, sent, inbound,
                   env, fnVars>>

\* list.pop(0)
pop0(context) == Tail(context)

\* app.py:243
TrimPop(t) ==
    /\ threads[t].pc = "pop"
    /\ lists' = [lists EXCEPT ![threads[t].context] = pop0(@)]
    /\ threads' = [threads EXCEPT ![t].pc = "tts"]
    /\ UNCHANGED <<pool, handler, wsOpen, active_connections, sent, inbound, env, fnVars>>

-----------------------------------------------------------------------------
(* utils.py: process_audio_for_playback, sarvam_client.py: text_to_speech,   *)
(* by the length of the audio                                                *)

\* padded length, utils.py:97-99
aligned_len(n) == IF n % frame_size # 0 THEN n + (frame_size - (n % frame_size)) ELSE n

\* utils.py:66-105 on n bytes of 16-bit PCM (the data of the WAV file when the
\* input is one): an odd length makes np.frombuffer raise (b'' is returned), an even
\* number of samples is averaged in pairs, the result is padded to the frame size.
playback_len(n) ==
    IF n = 0 \/ n % 2 # 0 THEN 0
    ELSE LET samples == n \div 2
             mono == IF samples % 2 = 0 THEN samples \div 2 ELSE samples
         IN aligned_len(2 * mono)

TTSResponses ==
    {[kind |-> "http", status |-> 200, audios |-> 1, pcm |-> n] : n \in {101, 1284, 25600}}
    \cup {[kind |-> "http", status |-> 200, audios |-> 0, pcm |-> 0],
          [kind |-> "http", status |-> 500, audios |-> 0, pcm |-> 0],
          [kind |-> "exception", status |-> 0, audios |-> 0, pcm |-> 0]}

NoAudio == -1

\* the synthesis failed or gave no usable audio: no 200, no audio in the
\* answer, or audio that is empty or not a whole number of 16-bit samples
NoSpeech(resp) ==
    \/ resp.kind # "http"
    \/ resp.status # 200
    \/ resp.audios = 0
    \/ resp.pcm = 0
    \/ resp.pcm % 2 # 0

\* faulty variant: a frame of silence is returned where None should be
speech_or_silence(text, resp) ==
    IF Strip(text) # <<>> /\ resp.kind = "http" /\ resp.status = 200 /\ resp.audios > 0
    THEN playback_len(resp.pcm)
    ELSE frame_size

\* sarvam_client.py:47-101: the length of the PCM returned, NoAudio for None
text_to_speech(text, resp) ==
    IF text = <<>> \/ Strip(text) = <<>> THEN NoAudio
    ELSE IF resp.kind = "exception" THEN NoAudio
    ELSE IF resp.status = 200
         THEN IF resp.audios > 0 THEN playback_len(resp.pcm) ELSE NoAudio
         ELSE NoAudio

-----------------------------------------------------------------------------
(* app.py: send_tts_response *)

\* app.py:254-258
TTSStart(t) ==
    /\ threads[t].pc = "tts"
    /\ LET k == threads[t].connection_id
       IN threads' = IF ~active_connections[k].present
                     THEN [threads EXCEPT ![t] = Finish(@)]
                     ELSE [threads EXCEPT ![t].ws = active_connections[k].ws,
                                          ![t].pc = "synth"]
    /\ UNCHANGED <<pool, handler, wsOpen, active_connections, lists, sent, inbound,
                   env, fnVars>>

\* app.py:263 `if audio_data:` : not None and not empty
has_audio(n) == n # NoAudio /\ n > 0

\* app.py:261-269 the synthesis call returns, the audio is normalised again
TTSReturn(t) ==
    /\ threads[t].pc = "synth"
    /\ \E resp \in env.tts :
          LET audio_data == text_to_speech(threads[t].text, resp)
              processed_audio == IF has_audio(audio_data) THEN playback_len(audio_data) ELSE 0
              called == [threads[t] EXCEPT !.tts_called = TRUE,
                                           !.no_audio = NoSpeech(resp)]
          IN threads' = [threads EXCEPT ![t] =
                 IF processed_audio > 0
                 THEN [called EXCEPT !.audio_len = processed_audio, !.i = 0, !.pc = "send"]
                 ELSE Finish(called)]
    /\ UNCHANGED <<pool, handler, wsOpen, active_connections, lists, sent, inbound,
                   env, fnVars>>

\* faulty variant: the slice has no upper end, processed_audio[i:]
rest_len(audio_len, i) == aligned_len(audio_len - i)

\* app.py:270-275 the length of the piece at offset i, padded
piece_len(audio_len, i) ==
    LET chunk == IF audio_len - i < min_chunk_size THEN audio_len - i ELSE min_chunk_size
    IN aligned_len(chunk)

\* faulty variant: the error is logged and the loop goes on with the next piece
keeps_sending(th) ==
    IF th.i + min_chunk_size < th.audio_len
    THEN [th EXCEPT !.i = th.i + min_chunk_size]
    ELSE Finish(th)

\* app.py:290-292 ws.send raised: break, the function returns
after_send_error(th) == Finish(th)

\* app.py:269-292 one iteration of the loop: ws.send raises when the websocket
\* is closed, and the loop is left
SendPiece(t) ==
    /\ threads[t].pc = "send"
    /\ LET ws == threads[t].ws
           i == threads[t].i
       IN IF wsOpen[ws]
          THEN /\ sent' = [sent EXCEPT ![ws] =
                              Append(@, [run |-> t, i |-> i,
                                         n |-> piece_len(threads[t].audio_len, i)])]
               /\ threads' = [threads EXCEPT ![t] =
                                 IF i + min_chunk_size < threads[t].audio_len
                                 THEN [@ EXCEPT !.i = i + min_chunk_size]
                                 ELSE Finish(@)]
          ELSE /\ threads' = [threads EXCEPT ![t] = after_send_error(@)]
               /\ UNCHANGED sent
    /\ UNCHANGED <<pool, handler, wsOpen, active_connections, lists, inbound, env, fnVars>>

-----------------------------------------------------------------------------
(* Specifications *)

InitSystem(e) ==
    /\ pool = e.websockets
    /\ handler = [s \in Sessions |-> "idle"]
    /\ wsOpen = [s \in Sessions |-> TRUE]
    /\ active_connections = [k \in Keys |-> NoEntry]
    /\ lists = [s \in Sessions |-> <<>>]
    /\ threads = <<>>
    /\ sent = [s \in Sessions |-> <<>>]
    /\ inbound = [s \in Sessions |-> 0]
    /\ env = e
    /\ alignIn = <<>>
    /\ alignOut = None
    /\ playIn = 0
    /\ playOut = <<>>

\* The aggregator alone: the events of one connection, no pipeline thread scheduled.
AggSizes == {5, 100, 320, 3100, 3200, 3205, 6500}
InitAgg ==
    InitSystem([websockets |-> {1}, keys |-> {1}, events |-> MaxIngest, inflight |-> MaxIngest,
                sizes |-> AggSizes,
                stt |-> {}, gemini |-> {}, tts |-> {}])
NextAgg ==
    \/ \E s \in Sessions : Connect(s)
    \/ \E s \in Sessions : \E p \in Payloads : handle_media(s, p)
    \/ \E s \in Sessions : handle_stop(s)
SpecAgg == InitAgg /\ [][NextAgg]_vars

\* The full system: one connection, its events and its threads, in every interleaving.
\* With at most MaxEvents chunks the list never exceeds max_context, so TrimPop is
\* never enabled here; SpecCtx covers it.
\* Of the reply backend's failures, two stand for all in this specification (each
\* failure yields its own fixed text, get_response).
Sizes == {100, 400, 3205}
SystemGemini ==
    {r \in GeminiResponses :
        r.status = 500 \/ r.kind = "timeout" \/ r.text = <<"o", "k">>}
Init ==
    InitSystem([websockets |-> {1}, keys |-> {1}, events |-> MaxEvents, inflight |-> MaxEvents,
                sizes |-> Sizes,
                stt |-> STTResponses, gemini |-> SystemGemini, tts |-> TTSResponses])
Next ==
    \/ \E s \in Sessions : Connect(s)
    \/ \E s \in Sessions : handle_connected(s)
    \/ \E s \in Sessions : handle_start(s)
    \/ \E s \in Sessions : \E p \in Payloads : handle_media(s, p)
    \/ \E s \in Sessions : handle_stop(s)
    \/ \E s \in Sessions : Disconnect(s)
    \/ \E s \in Sessions : Close(s)
    \/ \E t \in 1..Len(threads) : STTReturn(t)
    \/ \E t \in 1..Len(threads) : GeminiStart(t)
    \/ \E t \in 1..Len(threads) : BuildRequest(t)
    \/ \E t \in 1..Len(threads) : GeminiReturn(t)
    \/ \E t \in 1..Len(threads) : ContextAppend(t)
    \/ \E t \in 1..Len(threads) : TrimCheck(t)
    \/ \E t \in 1..Len(threads) : TTSStart(t)
    \/ \E t \in 1..Len(threads) : TTSReturn(t)
    \/ \E t \in 1..Len(threads) : SendPiece(t)
Spec == Init /\ [][Next]_vars


\* The context store: one connection whose every media event carries one whole
\* chunk; transcription succeeds, synthesis fails, so that the runs differ only in
\* how their accesses to conversation_context interleave.
InitCtx ==
    InitSystem([websockets |-> {1}, keys |-> {1}, events |-> MaxRuns, inflight |-> MaxInFlight,
                sizes |-> {min_chunk_size},
                stt |-> {r \in STTResponses : r.transcript = <<"h", "i">>},
                gemini |-> {r \in GeminiResponses : r.text = <<"o", "k">>},
                tts |-> {r \in TTSResponses : r.status = 500}])
NextCtx ==
    \/ \E s \in Sessions : Connect(s)
    \/ \E s \in Sessions : \E n \in env.sizes : handle_media(s, [kind |-> "b64", n |-> n])
    \/ \E t \in 1..Len(threads) : STTReturn(t)
    \/ \E t \in 1..Len(threads) : GeminiStart(t)
    \/ \E t \in 1..Len(threads) : BuildRequest(t)
    \/ \E t \in 1..Len(threads) : GeminiReturn(t)
    \/ \E t \in 1..Len(threads) : ContextAppend(t)
    \/ \E t \in 1..Len(threads) : TrimCheck(t)
    \/ \E t \in 1..Len(threads) : TrimPop(t)
    \/ \E t \in 1..Len(threads) : TTSStart(t)
    \/ \E t \in 1..Len(threads) : TTSReturn(t)
SpecCtx == InitCtx /\ [][NextCtx]_vars

\* The receive loop alone: every kind of message a connection can deliver and the
\* end of the connection, no pipeline thread scheduled.
InitEvents ==
    InitSystem([websockets |-> {1}, keys |-> {1}, events |-> MaxMessages, inflight |-> MaxMessages,
                sizes |-> Sizes, stt |-> {}, gemini |-> {}, tts |-> {}])
NextEvents ==
    \/ \E s \in Sessions : Connect(s)
    \/ \E s \in Sessions : handle_connected(s)
    \/ \E s \in Sessions : handle_start(s)
    \/ \E s \in Sessions : \E p \in Payloads : handle_media(s, p)
    \/ \E s \in Sessions : handle_stop(s)
    \/ \E s \in Sessions : \E m \in OtherMessages : receive_other(s, m)
    \/ \E s \in Sessions : Close(s)
SpecEvents == InitEvents /\ [][NextEvents]_vars

\* Two connections, at the same time or one after the other: when websocket 2
\* connects after the handler of websocket 1 has returned, pipeline threads of
\* connection 1 may still run, and websocket 2 may get the id websocket 1 had.
\* Every backend call succeeds.
InitReuse ==
    InitSystem([websockets |-> {1, 2}, keys |-> Keys, events |-> MaxEvents, inflight |-> MaxEvents,
                sizes |-> {3205},
                stt |-> {r \in STTResponses : r.transcript = <<"h", "i">>},
                gemini |-> {r \in GeminiResponses : r.text = <<"o", "k">>},
                tts |-> {r \in TTSResponses : r.pcm = 25600}])
NextReuse ==
    \/ \E s \in Sessions : Connect(s)
    \/ \E s \in Sessions : \E n \in env.sizes : handle_media(s, [kind |-> "b64", n |-> n])
    \/ \E s \in Sessions : Close(s)
    \/ \E t \in 1..Len(threads) : STTReturn(t)
    \/ \E t \in 1..Len(threads) : GeminiStart(t)
    \/ \E t \in 1..Len(threads) : BuildRequest(t)
    \/ \E t \in 1..Len(threads) : GeminiReturn(t)
    \/ \E t \in 1..Len(threads) : ContextAppend(t)
    \/ \E t \in 1..Len(threads) : TrimCheck(t)
    \/ \E t \in 1..Len(threads) : TTSStart(t)
    \/ \E t \in 1..Len(threads) : TTSReturn(t)
    \/ \E t \in 1..Len(threads) : SendPiece(t)
SpecReuse == InitReuse /\ [][NextReuse]_vars

\* The ends of the receive loop: two connections, at the same time or one after
\* the other, every kind of message and every way the loop is left; no pipeline
\* thread scheduled.
InitExit ==
    InitSystem([websockets |-> {1, 2}, keys |-> Keys, events |-> MaxMessages,
                inflight |-> MaxMessages, sizes |-> {3205}, stt |-> {}, gemini |-> {},
                tts |-> {}])
NextExit ==
    \/ \E s \in Sessions : Connect(s)
    \/ \E s \in Sessions : handle_start(s)
    \/ \E s \in Sessions : \E p \in Payloads : handle_media(s, p)
    \/ \E s \in Sessions : handle_stop(s)
    \/ \E s \in Sessions : \E m \in OtherMessages : receive_other(s, m)
    \/ \E s \in Sessions : Close(s)
SpecExit == InitExit /\ [][NextExit]_vars

\* The sender alone: connected events, whose greeting threads synthesise and
\* send; the synthesised audio has any of several lengths (none, one piece,
\* several pieces with a short or a full last piece), and the peer may go away
\* or the connection end while pieces are being sent.
PcmSizes == {101, 1284, 13000, 25600, 28164}
SenderTTS ==
    {[kind |-> "http", status |-> 200, audios |-> 1, pcm |-> n] : n \in PcmSizes}
    \cup {r \in TTSResponses : r.audios = 0}
InitSend ==
    InitSystem([websockets |-> {1}, keys |-> {1}, events |-> MaxReplies,
                inflight |-> MaxReplies, sizes |-> {}, stt |-> {}, gemini |-> {},
                tts |-> SenderTTS])
NextSend ==
    \/ \E s \in Sessions : Connect(s)
    \/ \E s \in Sessions : handle_connected(s)
    \/ \E s \in Sessions : Disconnect(s)
    \/ \E s \in Sessions : Close(s)
    \/ \E t \in 1..Len(threads) : TTSStart(t)
    \/ \E t \in 1..Len(threads) : TTSReturn(t)
    \/ \E t \in 1..Len(threads) : SendPiece(t)
SpecSend == InitSend /\ [][NextSend]_vars

\* The frame aligner alone: any input of up to MaxAlignLen bytes, some of them
\* already ending in zero bytes.
InitAlign ==
    /\ pool = {}
    /\ handler = [s \in Sessions |-> "idle"]
    /\ wsOpen = [s \in Sessions |-> TRUE]
    /\ active_connections = [k \in Keys |-> NoEntry]
    /\ lists = [s \in Sessions |-> <<>>]
    /\ threads = <<>>
    /\ sent = [s \in Sessions |-> <<>>]
    /\ inbound = [s \in Sessions |-> 0]
    /\ env = [websockets |-> {}, keys |-> {}, events |-> 0, inflight |-> 0, sizes |-> {}, stt |-> {},
              gemini |-> {}, tts |-> {}]
    /\ \E n \in 0..MaxAlignLen : \E z \in {0, 1, frame_size} :
          alignIn = BCat(InputBytes(0, n), Zeros(z))
    /\ alignOut = None
    /\ playIn = 0
    /\ playOut = <<>>
Align ==
    /\ alignOut = None
    /\ alignOut' = Str(process_audio_for_stt(alignIn))
    /\ UNCHANGED <<sysVars, alignIn, playIn, playOut>>
NextAlign == Align
SpecAlign == InitAlign /\ [][NextAlign]_vars

\* The playback normalisation alone, as one reply meets it: text_to_speech
\* applies it to the PCM of the synthesis answer, send_tts_response applies it
\* again to what text_to_speech returned.  Any answer of up to MaxPcmLen bytes.
InitPlayback ==
    /\ pool = {}
    /\ handler = [s \in Sessions |-> "idle"]
    /\ wsOpen = [s \in Sessions |-> TRUE]
    /\ active_connections = [k \in Keys |-> NoEntry]
    /\ lists = [s \in Sessions |-> <<>>]
    /\ threads = <<>>
    /\ sent = [s \in Sessions |-> <<>>]
    /\ inbound = [s \in Sessions |-> 0]
    /\ env = [websockets |-> {}, keys |-> {}, events |-> 0, inflight |-> 0, sizes |-> {}, stt |-> {},
              gemini |-> {}, tts |-> {}]
    /\ alignIn = <<>>
    /\ alignOut = None
    /\ playIn \in 0..MaxPcmLen
    /\ playOut = <<>>
\* sarvam_client.py:82
NormaliseInSynthesis ==
    /\ playOut = <<>>
    /\ playOut' = <<playback_len(playIn)>>
    /\ UNCHANGED <<sysVars, alignIn, alignOut, playIn>>
\* app.py:263-265
NormaliseInSender ==
    /\ Len(playOut) = 1
    /\ has_audio(playOut[1])
    /\ playOut' = Append(playOut, playback_len(playOut[1]))
    /\ UNCHANGED <<sysVars, alignIn, alignOut, playIn>>
NextPlayback == NormaliseInSynthesis \/ NormaliseInSender
SpecPlayback == InitPlayback /\ [][NextPlayback]_vars

-----------------------------------------------------------------------------
(* The claims *)

Buffer(s) == active_connections[IdOf(s)].audio_buffer
ChunkThreads == {t \in 1..Len(threads) : threads[t].kind = "chunk"}
\* the places <<websocket, position>> of the media messages thread t sent
SentBy(t) ==
    {m \in UNION {{<<s, i>> : i \in 1..Len(sent[s])} : s \in Sessions} :
        sent[m[1]][m[2]].run = t}

\* C1: the outbound media pieces of one connection's chunk replies are sent in the
\* order in which the chunks were extracted: no piece of an earlier chunk's reply
\* is sent after a piece of a later chunk's reply.
OutboundInChunkOrder ==
    \A s \in Sessions : \A i, j \in 1..Len(sent[s]) :
        (i < j /\ sent[s][i].run \in ChunkThreads /\ sent[s][j].run \in ChunkThreads)
            => sent[s][i].run <= sent[s][j].run

\* C2: a pipeline run whose reply generation failed appends no exchange, calls no
\* synthesis and sends no media message.
FailedReplyStopsRun ==
    \A t \in 1..Len(threads) :
        threads[t].failed =>
            /\ threads[t].appended = 0
            /\ ~threads[t].tts_called
            /\ SentBy(t) = {}

\* C3: handling a stop event while n > 0 bytes are buffered starts exactly one
\* thread, for a final chunk that is the whole buffer followed by zero bytes up to
\* the next multiple of 320, and leaves the buffer empty.
StopFlushesWholeBuffer ==
    [][\A s \in Sessions :
          (handle_stop(s) /\ Buffer(s) # <<>>) =>
              LET n == BLen(Buffer(s))
                  last == threads'[Len(threads')]
              IN /\ Len(threads') = Len(threads) + 1
                 /\ last.final
                 /\ last.audio_data = BCat(Buffer(s), Zeros((320 - (n % 320)) % 320))
                 /\ active_connections'[IdOf(s)].audio_buffer = <<>>]_vars

\* the chunks extracted from connection s by the first n threads, concatenated
RECURSIVE ExtractedUpTo(_, _)
ExtractedUpTo(s, n) ==
    IF n = 0 THEN <<>>
    ELSE IF threads[n].kind = "chunk" /\ threads[n].sess = s
         THEN BCat(ExtractedUpTo(s, n - 1), threads[n].extracted)
         ELSE ExtractedUpTo(s, n - 1)

\* C4: while a connection is handled, the chunks extracted from its buffer so far,
\* in extraction order, followed by the buffer, are exactly the bytes of the
\* payloads received so far, and the length of every chunk is a multiple of 320.
ByteConservation ==
    \A s \in Sessions :
        handler[s] = "open" =>
            /\ BCat(ExtractedUpTo(s, Len(threads)), Buffer(s)) = InputBytes(0, inbound[s])
            /\ BLen(ExtractedUpTo(s, Len(threads))) + BLen(Buffer(s)) = inbound[s]
            /\ \A t \in ChunkThreads : BLen(threads[t].extracted) % 320 = 0

\* three chunks were extracted, not all of the same length, and bytes are left
ByteConservationWitness ==
    \E s \in Sessions :
        /\ handler[s] = "open"
        /\ Cardinality(ChunkThreads) >= 3
        /\ \E t, u \in ChunkThreads : BLen(threads[t].extracted) # BLen(threads[u].extracted)
        /\ Buffer(s) # <<>>

\* C5: handling a media event extracts a chunk exactly when the buffer, after the
\* payload was appended, holds n >= 3200 bytes; the chunk is then the first
\* n - n % 320 bytes (at least 3200, a multiple of 320) and the fewer than 320
\* other bytes stay buffered; otherwise nothing is extracted and all n bytes stay.
ThresholdExtraction ==
    [][\A s \in Sessions : \A p \in Payloads :
          handle_media(s, p) =>
              LET before == Buffer(s)
                  payload == IF p.kind = "b64" THEN InputBytes(inbound[s], p.n) ELSE <<>>
                  n == BLen(before) + BLen(payload)
                  after == active_connections'[IdOf(s)].audio_buffer
              IN IF n >= 3200
                 THEN /\ Len(threads') = Len(threads) + 1
                      /\ SubSeq(threads', 1, Len(threads)) = threads
                      /\ LET c == threads'[Len(threads')].extracted
                         IN /\ BLen(c) = n - (n % 320)
                            /\ BLen(c) >= 3200
                            /\ BCat(c, after) = BCat(before, payload)
                            /\ BLen(after) < 320
                 ELSE /\ threads' = threads
                      /\ after = BCat(before, payload)]_vars

\* 3205 bytes came in: one chunk of 3200 bytes is out, 5 bytes are buffered
ThresholdWitness ==
    \E s \in Sessions :
        /\ handler[s] = "open"
        /\ inbound[s] = 3205
        /\ \E t \in ChunkThreads : BLen(threads[t].extracted) = 3200
        /\ BLen(Buffer(s)) = 5

\* C6: a conversation_context list never holds more than 5 exchanges, in any
\* state, also between the steps of the threads.
ContextAtMostFive == \A s \in Sessions : Len(lists[s]) <= 5

\* C7: the exchanges of a conversation_context are in the order in which the
\* chunks carrying their utterances were extracted (threads are numbered in
\* extraction order).
ContextChronological ==
    \A s \in Sessions : \A i, j \in 1..Len(lists[s]) :
        i < j => lists[s][i].run < lists[s][j].run

AppendInProgress(l) ==
    \E t \in 1..Len(threads) : threads[t].context = l /\ threads[t].pc \in {"trim", "pop"}

\* C8: once more than 5 exchanges were appended to a list and no thread is between
\* its append and the end of its trimming, the list holds exactly the 5 exchanges
\* appended last, oldest first.
ContextKeepsLastFive ==
    \A s \in Sessions :
        (Appends(s) > 5 /\ ~AppendInProgress(s)) =>
            /\ Len(lists[s]) = 5
            /\ \A i \in 1..5 : lists[s][i].seq = Appends(s) - 5 + i

\* C9: a run whose transcription failed or returned an empty or whitespace-only
\* transcript ends there: no reply generation, no synthesis, no exchange appended,
\* no media message sent.
NoTranscriptStopsRun ==
    \A t \in 1..Len(threads) :
        threads[t].no_transcript =>
            /\ threads[t].pc = "done"
            /\ ~threads[t].gemini_called
            /\ ~threads[t].tts_called
            /\ threads[t].appended = 0
            /\ SentBy(t) = {}

\* one chunk's run ended without a transcript while another chunk's reply went out
NoTranscriptWitness ==
    \E t, u \in ChunkThreads :
        /\ threads[t].stt_called /\ threads[t].no_transcript
        /\ SentBy(u) # {}

\* C10: the aligned audio has a length divisible by 320, starts with the input,
\* continues with zero bytes only, fewer than 320 of them, equals the input when
\* the input's length is a multiple of 320 and is empty for the empty input.
AlignerContract ==
    alignOut.some =>
        LET b == alignIn
            r == alignOut.v
        IN /\ BLen(r) % 320 = 0
           /\ BTake(r, BLen(b)) = b
           /\ AllZero(BDrop(r, BLen(b)))
           /\ BLen(r) - BLen(b) < 320
           /\ BLen(r) >= BLen(b)
           /\ (BLen(b) % 320 = 0 => r = b)
           /\ (b = <<>> => r = <<>>)

\* an input of neither zero nor aligned length was padded
AlignerWitness ==
    /\ alignOut.some
    /\ BLen(alignIn) % 320 = 100
    /\ BLen(alignOut.v) = BLen(alignIn) + 220

\* C11: a malformed message (not JSON, JSON that is not an object, an object
\* without a known event, a media event without payload or with an undecodable
\* one) is dropped: the registry entry, the context and the threads stay as they
\* are, the handler goes on receiving and the websocket is not closed.
MalformedEventDropped ==
    [][\A s \in Sessions :
          (\/ \E m \in OtherMessages : receive_other(s, m)
           \/ \E p \in Payloads : p.kind # "b64" /\ handle_media(s, p))
              => /\ handler'[s] = "open"
                 /\ wsOpen'[s] = wsOpen[s]
                 /\ active_connections' = active_connections
                 /\ lists' = lists
                 /\ threads' = threads]_vars

\* C12: once the stop event of a connection was handled (stream_active is False),
\* no step sets the connection's stream_active to True again.
StoppedIsTerminal ==
    [][\A k \in Keys :
          (active_connections[k].present /\ active_connections[k].stream_active = "false")
              => ~(/\ active_connections'[k].present
                   /\ active_connections'[k].ws = active_connections[k].ws
                   /\ active_connections'[k].stream_active = "true")]_vars

\* C13: once the stop event of a connection was handled, no step extracts a
\* further chunk from the connection's buffer or starts a thread for one.
StopFlushIsLast ==
    [][\A k \in Keys :
          (active_connections[k].present /\ active_connections[k].stream_active = "false")
              => /\ \A t \in (Len(threads) + 1)..Len(threads') : threads'[t].kind # "chunk"
                 /\ active_connections'[k].present =>
                        BLen(active_connections'[k].audio_buffer)
                            >= BLen(active_connections[k].audio_buffer)]_vars

\* C14: a thread started for connection A reads and appends only A's
\* conversation_context and sends media only on A's websocket, also after A's
\* entry was removed and a later connection was registered under the same key.
SessionIsolation ==
    \A t \in ChunkThreads :
        /\ threads[t].context \in {0, threads[t].sess}
        /\ threads[t].appended \in {0, threads[t].sess}
        /\ threads[t].ws \in {0, threads[t].sess}
        /\ \A m \in SentBy(t) : m[1] = threads[t].sess

\* thread t has appended its exchange and has not finished trimming the list
Updating(t) == threads[t].pc \in {"trim", "pop"}
\* thread t has sent a piece of its reply and has more pieces to send
Sending(t) == threads[t].pc = "send" /\ threads[t].i > 0

\* C15: no two threads of one connection are at the same time between their
\* append to the context and the end of its trimming, and no two are at the same
\* time in the middle of sending the pieces of their replies.
SingleActiveWriter ==
    \A t, u \in 1..Len(threads) :
        (t # u /\ threads[t].sess = threads[u].sess) =>
            /\ ~(Updating(t) /\ Updating(u))
            /\ ~(Sending(t) /\ Sending(u))

\* the runs of input bytes of a byte string
InputRuns(b) == {b[i] : i \in {j \in 1..Len(b) : ~b[j].z}}
\* no input byte is in both byte strings
NoCommonByte(a, b) ==
    \A r1 \in InputRuns(a) : \A r2 \in InputRuns(b) :
        r1.lo + r1.n <= r2.lo \/ r2.lo + r2.n <= r1.lo

\* C16: no two chunks extracted from one connection's buffer have a byte in
\* common, and no byte of a chunk is still in the buffer: every received byte is
\* handed to at most one chunk, whatever the pipeline threads do between the
\* media events.
ChunksDoNotOverlap ==
    \A s \in Sessions :
        /\ \A t, u \in ChunkThreads :
              (t # u /\ threads[t].sess = s /\ threads[u].sess = s)
                  => NoCommonByte(threads[t].extracted, threads[u].extracted)
        /\ handler[s] = "open" =>
              \A t \in ChunkThreads :
                  threads[t].sess = s => NoCommonByte(threads[t].extracted, Buffer(s))

\* two media events in a row each made the buffer cross the threshold: two
\* chunks are out, the second one's pipeline has not started, bytes are buffered
ChunksDoNotOverlapWitness ==
    \E s \in Sessions :
        /\ handler[s] = "open"
        /\ Cardinality({t \in ChunkThreads : threads[t].sess = s}) = 2
        /\ \A t \in ChunkThreads : BLen(threads[t].extracted) = 3200
        /\ \E t \in ChunkThreads : threads[t].pc = "stt" /\ ~threads[t].stt_called
        /\ BLen(Buffer(s)) = 10

\* websocket s has an entry in the registry
Registered(s) == \E k \in Keys : active_connections[k].present /\ active_connections[k].ws = s
\* a final chunk (final = True, the flush of what was left in the buffer) of
\* connection s is still in the pipeline
FinalFlushInFlight(s) ==
    \E t \in ChunkThreads : threads[t].sess = s /\ threads[t].final /\ threads[t].pc # "done"

\* C17: a connection that was accepted has its entry in active_connections
\* exactly when it is open or a final flush of its buffered audio is still in
\* flight: the entry is not removed while the flush is running.
RegisteredWhileOpenOrFlushing ==
    \A s \in Sessions \ pool :
        Registered(s) <=> (handler[s] = "open" \/ FinalFlushInFlight(s))

\* C18: when a connection that got no stop event ends while n > 0 bytes are
\* buffered, ending it starts a thread for a final chunk that carries all n
\* bytes, padded with zero bytes to a multiple of 320.
CloseFlushesBuffer ==
    [][\A s \in Sessions :
          (/\ Close(s)
           /\ Buffer(s) # <<>>
           /\ active_connections[IdOf(s)].stream_active # "false")
              => /\ Len(threads') = Len(threads) + 1
                 /\ threads'[Len(threads')].kind = "chunk"
                 /\ threads'[Len(threads')].sess = s
                 /\ threads'[Len(threads')].final
                 /\ BTake(threads'[Len(threads')].audio_data, BLen(Buffer(s))) = Buffer(s)
                 /\ BLen(threads'[Len(threads')].audio_data) % 320 = 0]_vars

\* thread t waits for the answer of a backend (transcription, reply, synthesis)
BackendPending(t) == threads[t].pc \in {"stt", "generate", "synth"}

\* C19: while a connection is open and a message arrives, the handler can handle
\* it at once, whatever it is (connected, start, media with any payload, stop),
\* however many backend calls are pending for this or another connection: no
\* event handler waits for a pipeline thread.
IngestionNeverStalled ==
    \A s \in Sessions :
        (handler[s] = "open" /\ env.events > 0) =>
            /\ ENABLED handle_connected(s)
            /\ ENABLED handle_start(s)
            /\ ENABLED handle_stop(s)
            /\ \A p \in Payloads : ENABLED handle_media(s, p)

\* two connections are open and a message can arrive on either while the reply
\* to a chunk of one of them is being generated
IngestionNeverStalledWitness ==
    /\ \A s \in Sessions : handler[s] = "open"
    /\ env.events > 0
    /\ \E t \in ChunkThreads : threads[t].pc = "generate" /\ BackendPending(t)

\* C20: once a connection's handler has removed its registry entry and returned,
\* no media message produced by a thread of that connection is sent any more, on
\* any websocket: what its threads still produce is discarded.
NoOutputAfterRemoval ==
    [][\A s \in Sessions : \A i \in (Len(sent[s]) + 1)..Len(sent'[s]) :
          handler[threads[sent'[s][i].run].sess] = "open"]_vars

\* the positions in sent[s] of the media messages of thread t, in sending order
RECURSIVE PiecesOf(_, _, _)
PiecesOf(s, t, n) ==
    IF n = 0 THEN <<>>
    ELSE IF sent[s][n].run = t
         THEN Append(PiecesOf(s, t, n - 1), sent[s][n])
         ELSE PiecesOf(s, t, n - 1)

\* C21: the media messages of one reply are sent in increasing offset order (the
\* k-th piece starts at offset 3200 * (k - 1)); every piece is non-empty and a
\* multiple of 320 bytes long, every piece that is followed by another piece of
\* the reply, or that is not the last of the audio, is exactly 3200 bytes, and
\* no piece is longer than 3200 bytes.
OutboundRechunking ==
    \A s \in Sessions : \A t \in 1..Len(threads) :
        LET pieces == PiecesOf(s, t, Len(sent[s]))
        IN \A k \in 1..Len(pieces) :
              /\ pieces[k].i = 3200 * (k - 1)
              /\ pieces[k].n > 0
              /\ pieces[k].n % 320 = 0
              /\ pieces[k].n <= 3200
              /\ (k < Len(pieces) \/ threads[t].pc = "send") => pieces[k].n = 3200

\* a reply went out whole in three pieces, the last one shorter than the others
OutboundRechunkingWitness ==
    \E s \in Sessions : \E t \in 1..Len(threads) :
        LET pieces == PiecesOf(s, t, Len(sent[s]))
        IN /\ threads[t].pc = "done"
           /\ Len(pieces) = 3
           /\ pieces[3].n = 960

\* C22: when the sending of a piece fails, the step sends nothing, ends the
\* thread's function normally and leaves the registry (entry, buffer) and the
\* context as they are; and a thread whose function has returned sends nothing
\* any more, so none of the remaining pieces of the reply is sent.
SendFailureStopsReply ==
    [][\A t \in 1..Len(threads) :
          /\ (SendPiece(t) /\ ~wsOpen[threads[t].ws])
                => /\ sent' = sent
                   /\ threads'[t].pc = "done"
                   /\ active_connections' = active_connections
                   /\ lists' = lists
          /\ threads[t].pc = "done"
                => /\ threads'[t].pc = "done"
                   /\ \A s \in Sessions :
                         PiecesOf(s, t, Len(sent[s]))' = PiecesOf(s, t, Len(sent[s]))]_vars

\* a reply of more than one piece was cut off after its first piece
SendFailureStopsReplyWitness ==
    \E s \in Sessions : \E t \in 1..Len(threads) :
        LET pieces == PiecesOf(s, t, Len(sent[s]))
        IN /\ threads[t].pc = "done"
           /\ ~wsOpen[s]
           /\ Len(pieces) = 1
           /\ pieces[1].n = 3200

\* C23: from the moment a run has obtained the connection's context (app.py:231)
\* the history that goes into its reply request is fixed: no step of another
\* thread changes what the run will put, or has put, into the request.
ContextIsSnapshot ==
    [][\A t \in 1..Len(threads) :
          /\ (threads[t].pc = "build" /\ threads'[t].pc = "build")
                => request_history(lists'[threads[t].context])
                       = request_history(lists[threads[t].context])
          /\ (threads[t].pc = "generate" /\ threads'[t].pc = "generate")
                => threads'[t].history = threads[t].history]_vars

\* C24: a chunk's run whose synthesis failed or gave no audio has sent no media
\* message, and the exchange it appended before the synthesis is in the context.
FailedSynthesisKeepsExchange ==
    \A t \in ChunkThreads :
        threads[t].no_audio =>
            /\ SentBy(t) = {}
            /\ threads[t].appended # 0
            /\ \E i \in 1..Len(lists[threads[t].appended]) :
                  /\ lists[threads[t].appended][i].run = t
                  /\ lists[threads[t].appended][i].user = <<"h", "i">>

\* the synthesis failed for one chunk's reply while another chunk's reply went out
FailedSynthesisWitness ==
    \E t, u \in ChunkThreads :
        /\ threads[t].tts_called /\ threads[t].no_audio /\ threads[t].pc = "done"
        /\ Len(lists[threads[t].sess]) = 2
        /\ SentBy(u) # {}

GreetingThreads == {t \in 1..Len(threads) : threads[t].kind = "greeting"}

\* C25: handling a connected event starts exactly one thread, which synthesises
\* the fixed greeting text, and changes neither the registry (buffer) nor the
\* context; a greeting thread calls synthesis at most once, calls neither the
\* transcription nor the reply generation, and its steps leave the buffer and
\* the context as they are.
GreetingOnlySynthesises ==
    [][/\ \A s \in Sessions :
            handle_connected(s) =>
                /\ Len(threads') = Len(threads) + 1
                /\ threads'[Len(threads')].kind = "greeting"
                /\ threads'[Len(threads')].text = greeting_text
                /\ active_connections' = active_connections
                /\ lists' = lists
       /\ \A t \in GreetingThreads :
            /\ ~threads'[t].stt_called
            /\ ~threads'[t].gemini_called
            /\ threads'[t].appended = 0
            /\ threads[t].tts_called => threads'[t].pc \in {"send", "done"}
            /\ threads'[t] # threads[t] =>
                  (active_connections' = active_connections /\ lists' = lists)]_vars

\* the greeting was synthesised and its first piece delivered
GreetingWitness ==
    \E t \in GreetingThreads :
        /\ threads[t].tts_called
        /\ \E m \in SentBy(t) : sent[m[1]][m[2]].i = 0 /\ m[1] = threads[t].sess


StreamStates == {Unset, "true", "false"}

\* C26: a media event with a non-empty decodable payload is appended to the
\* connection's buffer, and a chunk is extracted once 3200 bytes are buffered,
\* in every stream state: before a start event, while streaming, after a stop.
\* The stream state itself is left as it was.
MediaTakenInEveryStreamState ==
    [][\A s \in Sessions : \A p \in Payloads : \A st \in StreamStates :
          (/\ p.kind = "b64"
           /\ handle_media(s, p)
           /\ active_connections[IdOf(s)].stream_active = st)
              => LET payload == InputBytes(inbound[s], p.n)
                     all == BCat(Buffer(s), payload)
                     entry == active_connections'[IdOf(s)]
                 IN /\ entry.stream_active = st
                    /\ BLen(all) < 3200 =>
                           /\ entry.audio_buffer = all
                           /\ threads' = threads
                    /\ BLen(all) >= 3200 =>
                           /\ Len(threads') = Len(threads) + 1
                           /\ threads'[Len(threads')].kind = "chunk"
                           /\ ~threads'[Len(threads')].final
                           /\ BCat(threads'[Len(threads')].extracted, entry.audio_buffer)
                                  = all]_vars

\* after a stop event flushed a final chunk, a media event made the buffer
\* reach the threshold and a further chunk was extracted; bytes are left
MediaAfterStopWitness ==
    \E s \in Sessions : \E t, u \in ChunkThreads :
        /\ handler[s] = "open"
        /\ active_connections[IdOf(s)].stream_active = "false"
        /\ t < u
        /\ threads[t].final
        /\ ~threads[u].final
        /\ threads[u].sess = s
        /\ Buffer(s) # <<>>

\* media was buffered before any start event was handled
MediaBeforeStart ==
    \E s \in Sessions :
        /\ handler[s] = "open"
        /\ active_connections[IdOf(s)].stream_active = Unset
        /\ Buffer(s) # <<>>

\* C27: a connection has its entry in active_connections exactly while its
\* receive loop runs: every way of leaving the loop removes the entry, nothing
\* removes it earlier, and once every handler has returned the registry is empty.
EntryLivesWithLoop ==
    /\ \A s \in Sessions : Registered(s) <=> handler[s] = "open"
    /\ \A j, k \in Keys :
          (/\ active_connections[j].present
           /\ active_connections[k].present
           /\ active_connections[j].ws = active_connections[k].ws) => j = k
    /\ (\A s \in Sessions : handler[s] # "open") =>
          \A k \in Keys : active_connections[k] = NoEntry

\* both connections were handled, each took media, and both handlers returned
AllHandlersReturned ==
    /\ pool = {}
    /\ \A s \in env.websockets : handler[s] = "closed" /\ inbound[s] > 0
    /\ env.websockets = {1, 2}

\* C28: the history of a reply request is the last 3 exchanges of the
\* connection's context at the time the request is built, oldest first, or the
\* whole context if it holds fewer; no older exchange is in it, although the
\* context keeps up to 5.
HistoryIsLastThree ==
    [][\A t \in 1..Len(threads) :
          (threads[t].pc = "build" /\ threads'[t].pc = "generate") =>
              LET context == lists[threads[t].context]
                  h == threads'[t].history
                  skipped == IF Len(context) > 3 THEN Len(context) - 3 ELSE 0
              IN /\ Len(h) <= 3
                 /\ Len(h) = Len(context) - skipped
                 /\ \A i \in 1..Len(h) : h[i] = context[skipped + i]]_vars

\* a request was built while the context held 5 exchanges: its history is the
\* third, fourth and fifth of them
HistoryWitness ==
    \E t \in ChunkThreads :
        /\ threads[t].pc = "generate"
        /\ Len(lists[threads[t].context]) = 5
        /\ Len(threads[t].history) = 3
        /\ threads[t].history[1] = lists[threads[t].context][3]
        /\ threads[t].history[3] = lists[threads[t].context][5]

\* C29: the playback normalisation is idempotent: applied to its own output
\* (frame aligned mono PCM) it returns that output, so the audio that
\* send_tts_response sends has the length of the audio text_to_speech returned.
PlaybackIdempotent ==
    Len(playOut) = 2 => playOut[2] = playOut[1]

=========================================================================
